---- MODULE Spec2Model ----
(***************************************************************************)
(* A model of the explicit-free-list allocator of mm.c.                    *)
(*                                                                         *)
(* The heap is a word-addressed memory: mem maps the byte address of a     *)
(* 4-byte word to the unsigned 32-bit value stored there.  Only words that *)
(* have been written are in DOMAIN mem; reading any other word (fresh      *)
(* memory handed out by mem_sbrk, memory outside the heap) yields an       *)
(* indeterminate value.  A store outside memlib's heap area, or to an      *)
(* address that is no multiple of 4, has undefined behaviour.  The client  *)
(* modelled here never stores into the payloads it is given.  Pointers     *)
(* and size_t are 32 bits wide (mm.c stores pointers in unsigned int       *)
(* words and casts them to int), and all                                   *)
(* pointer and size arithmetic is taken modulo 2^32.  A 32-bit quantity    *)
(* with unsigned value u is written as the integer u when u < 2^31 and as  *)
(* u - 2^32 otherwise (its two's complement reading), so 0xFFFFFFFF is -1. *)
(*                                                                         *)
(* Every C function is an operator over an allocator state record          *)
(*   [mem, mem_brk, heap_listp, free_listp, epilogue, g, req, ub]          *)
(* where g is the value an indeterminate read yields during the call, req  *)
(* the size of the call's last request to mem_sbrk (0: none yet) and ub    *)
(* whether the call has copied between overlapping ranges.                 *)
(* Functions that also return a value yield [st |-> state, rv |-> value].  *)
(***************************************************************************)
EXTENDS Integers, Sequences, FiniteSets, TLC

VARIABLES
    mem,         \* written heap words: byte address -> 32-bit value
    mem_brk,     \* memlib: first byte past the heap
    heap_listp,  \* static char *heap_listp
    free_listp,  \* char *free_listp
    epilogue,    \* char *epilogue
    inited,      \* "no" | "ok" | "failed": whether mm_init has returned 0 / -1
    live,        \* pointer -> number of times mm_malloc returned it without a
                 \* matching mm_free since (the pointers the client holds)
    op,          \* the last call: [name, arg]
    ret,         \* the value the last call returned
    hist,        \* "alloc" | "free" | "mixed": shape of the call sequence since init
    oom,         \* "no" | "refused" | "freed" | "reused": a request was refused for
                 \* lack of memory, then a block was freed, then a request was
                 \* served without growing the heap
    sound,       \* whether the heap invariants held before the last call of
                 \* mm_malloc or mm_free
    ncalls,      \* number of calls made so far
    asked,       \* bytes the last call asked of mem_sbrk last, 0 if it did not ask
    log,         \* the calls of a scripted client so far: [name, arg, ret]
    undef        \* some call's outcome depended on the value of an indeterminate
                 \* word, or some call stored outside the heap area

vars == <<mem, mem_brk, heap_listp, free_listp, epilogue, inited, live, op, ret,
          hist, oom, sound, ncalls, asked, log, undef>>

(***************************** bounds **************************************)
\* calls explored after mm_init
MaxCalls == 4
\* bytes the page-grant primitive is willing to hand out in total
MaxHeap == 9200

(*************************** 32-bit arithmetic *****************************)
\* largest and smallest integer of the two's complement reading
MaxInt == (2 ^ 30 - 1) + 2 ^ 30
MinInt == (-MaxInt) - 1

\* a + b modulo 2^32
Add32(a, b) ==
    IF a >= 0 /\ b >= 0 /\ a > MaxInt - b THEN (a - MaxInt - 1) + (b - MaxInt - 1)
    ELSE IF a < 0 /\ b < 0 /\ a < MinInt - b THEN (a + MaxInt + 1) + (b + MaxInt + 1)
    ELSE a + b

\* a - b modulo 2^32
Sub32(a, b) ==
    IF a >= 0 /\ b < 0 /\ a > MaxInt + b THEN (a - MaxInt - 1) - (b + MaxInt + 1)
    ELSE IF a < 0 /\ b >= 0 /\ a < MinInt + b THEN (a + MaxInt + 1) - (b - MaxInt - 1)
    ELSE a - b

\* unsigned a < b, a <= b
ULt(a, b) == IF (a >= 0) = (b >= 0) THEN a < b ELSE a >= 0
ULe(a, b) == a = b \/ ULt(a, b)

\* unsigned a / d for d a power of two, 2 <= d <= 8
UDiv(a, d) == IF a >= 0 THEN a \div d ELSE (a \div d) + 2 * (2 ^ 30 \div d) * 2

\* a * d modulo 2^32 for d a power of two, 2 <= d <= 8, and 0 <= a
UMul(a, d) ==
    LET q == (2 ^ 30 \div d) * 2      \* 2^31 / d
        r == a % (2 * q)              \* a modulo 2^32 / d
    IN  IF r < q THEN r * d ELSE (r - 2 * q) * d

(************************ constants and macros *****************************)
NULL == 0
\* (void *)-1, the failure value of mem_sbrk
NEG1 == -1

ALIGNMENT == 8
WSIZE == 4
DSIZE == 8
CHUNKSIZE == 2 ^ 12
MINIMUM == 16

\* address the first mem_sbrk returns (memlib's heap start, 8-byte aligned)
MemBase == 2 * ALIGNMENT

\* values an indeterminate read may yield
Garbage == {0, NEG1}

MAX(x, y) == IF ULt(y, x) THEN x ELSE y

\* size | alloc for alloc in {0, 1}
PACK(size, alloc) == IF alloc = 1 /\ size % 2 = 1 THEN size ELSE size + alloc

GET(s, p) == IF p \in DOMAIN s.mem THEN s.mem[p] ELSE s.g

PUT(s, p, val) ==
    [s EXCEPT !.mem = [a \in DOMAIN s.mem \cup {p} |->
                          IF a = p THEN val ELSE s.mem[a]]]

GET_SIZE(s, p) == GET(s, p) - (GET(s, p) % 8)
GET_ALLOC(s, p) == GET(s, p) % 2
GET_ALIGN(s, p) == GET(s, p) % 8

HDRP(bp) == Sub32(bp, WSIZE)
FTRP(s, bp) == Sub32(Add32(bp, GET_SIZE(s, HDRP(bp))), DSIZE)

NEXT_BLKP(s, bp) == Add32(bp, GET_SIZE(s, Sub32(bp, WSIZE)))
PREV_BLKP(s, bp) == Sub32(bp, GET_SIZE(s, Sub32(bp, DSIZE)))

NEXT_FREE(s, bp) == GET(s, Add32(bp, WSIZE))
PREV_FREE(s, bp) == GET(s, bp)

(*************************** page-grant primitive **************************)
\* mem_sbrk(int incr): refuses a negative increment and one past the heap
\* limit, and may refuse at will (grant = FALSE); otherwise moves the break
\* and returns the old one.  The new bytes are not initialised.
mem_sbrk(s, incr, grant) ==
    IF ~grant \/ incr < 0 \/ incr > MemBase + MaxHeap - s.mem_brk
    THEN [st |-> [s EXCEPT !.req = incr], rv |-> NEG1]
    ELSE [st |-> [s EXCEPT !.mem_brk = s.mem_brk + incr, !.req = incr],
          rv |-> s.mem_brk]

\* p is the address of a word of memlib's heap area
InHeapArea(p) == p >= MemBase /\ p <= MemBase + MaxHeap - WSIZE /\ p % WSIZE = 0

\* some word was stored outside the heap area
WildStore(s) == \E p \in DOMAIN s.mem : ~InHeapArea(p)

(******************************* free list *********************************)
add_freeblock(s, bp) ==
    IF s.free_listp = NULL
    THEN PUT(PUT([s EXCEPT !.free_listp = bp], bp, 0), Add32(bp, WSIZE), 0)
    ELSE LET s1 == PUT(s, s.free_listp, bp)
             s2 == PUT(s1, bp, 0)
             s3 == PUT(s2, Add32(bp, WSIZE), s2.free_listp)
         IN  [s3 EXCEPT !.free_listp = bp]

remove_freeblock(s, bp) ==
    IF PREV_FREE(s, bp) = 0 /\ NEXT_FREE(s, bp) = 0
    THEN [s EXCEPT !.free_listp = 0]
    ELSE IF PREV_FREE(s, bp) = 0 /\ NEXT_FREE(s, bp) # 0
    THEN LET s1 == [s EXCEPT !.free_listp = NEXT_FREE(s, bp)]
         IN  PUT(s1, NEXT_FREE(s1, bp), 0)
    ELSE IF PREV_FREE(s, bp) # 0 /\ NEXT_FREE(s, bp) = 0
    THEN PUT(s, Add32(PREV_FREE(s, bp), WSIZE), 0)
    ELSE LET s1 == PUT(s, Add32(PREV_FREE(s, bp), WSIZE), NEXT_FREE(s, bp))
         IN  PUT(s1, NEXT_FREE(s1, bp), PREV_FREE(s1, bp))

(******************************* coalescing ********************************)
coalesce(s, bp) ==
    LET prev_alloc == GET_ALLOC(s, HDRP(PREV_BLKP(s, bp)))
        next_alloc == GET_ALLOC(s, HDRP(NEXT_BLKP(s, bp)))
        size == GET_SIZE(s, HDRP(bp))
    IN
    IF prev_alloc = 1 /\ next_alloc = 1
    THEN [st |-> add_freeblock(s, bp), rv |-> bp]
    ELSE IF prev_alloc = 1 /\ next_alloc = 0
    THEN LET size2 == Add32(size, GET_SIZE(s, HDRP(NEXT_BLKP(s, bp))))
             s1 == remove_freeblock(s, NEXT_BLKP(s, bp))
             s2 == PUT(s1, HDRP(bp), PACK(size2, 0))
             s3 == PUT(s2, FTRP(s2, bp), PACK(size2, 0))
         IN  [st |-> add_freeblock(s3, bp), rv |-> bp]
    ELSE IF prev_alloc = 0 /\ next_alloc = 1
    THEN LET size2 == Add32(size, GET_SIZE(s, HDRP(PREV_BLKP(s, bp))))
             s1 == remove_freeblock(s, PREV_BLKP(s, bp))
             s2 == PUT(s1, HDRP(PREV_BLKP(s1, bp)), PACK(size2, 0))
             s3 == PUT(s2, FTRP(s2, bp), PACK(size2, 0))
             bp2 == PREV_BLKP(s3, bp)
         IN  [st |-> add_freeblock(s3, bp2), rv |-> bp2]
    ELSE LET size2 == Add32(size, Add32(GET_SIZE(s, HDRP(PREV_BLKP(s, bp))),
                                            GET_SIZE(s, FTRP(s, NEXT_BLKP(s, bp)))))
             s1 == remove_freeblock(s, PREV_BLKP(s, bp))
             s2 == remove_freeblock(s1, NEXT_BLKP(s1, bp))
             s3 == PUT(s2, HDRP(PREV_BLKP(s2, bp)), PACK(size2, 0))
             s4 == PUT(s3, FTRP(s3, NEXT_BLKP(s3, bp)), PACK(size2, 0))
             bp2 == PREV_BLKP(s4, bp)
         IN  [st |-> add_freeblock(s4, bp2), rv |-> bp2]

(******************************* placement *********************************)
place(s, bp, asize) ==
    LET csize == GET_SIZE(s, HDRP(bp)) IN
    IF ULe(MINIMUM, Sub32(csize, asize))
    THEN LET s1 == remove_freeblock(s, bp)
             s2 == PUT(s1, HDRP(bp), PACK(asize, 1))
             s3 == PUT(s2, FTRP(s2, bp), PACK(asize, 1))
             bp2 == NEXT_BLKP(s3, bp)
             s4 == PUT(s3, HDRP(bp2), PACK(Sub32(csize, asize), 0))
             s5 == PUT(s4, FTRP(s4, bp2), PACK(Sub32(csize, asize), 0))
         IN  add_freeblock(s5, bp2)
    ELSE LET s1 == PUT(s, HDRP(bp), PACK(csize, 1))
             s2 == PUT(s1, FTRP(s1, bp), PACK(csize, 1))
         IN  remove_freeblock(s2, bp)

(****************************** heap growth ********************************)
extend_heap(s, words, grant) ==
    LET size == IF words % 2 = 1 THEN UMul(words + 1, WSIZE)
                                 ELSE UMul(words, WSIZE)
        r == mem_sbrk(s, size, grant)
        bp == r.rv
    IN  IF bp = NEG1
        THEN [st |-> r.st, rv |-> NULL]
        ELSE LET s1 == PUT(r.st, HDRP(bp), PACK(size, 0))
                 s2 == PUT(s1, FTRP(s1, bp), PACK(size, 0))
                 s3 == PUT(s2, HDRP(NEXT_BLKP(s2, bp)), PACK(0, 1))
             IN  coalesce(s3, bp)

(******************************** first fit ********************************)
\* longest list walk followed before a scan counts as not terminating
MaxWalk == 2 * MaxCalls + 4

\* [bp |-> result, hang |-> the scan did not terminate within MaxWalk links]
RECURSIVE find_fit_from(_, _, _, _)
find_fit_from(s, bp, asize, fuel) ==
    IF bp = NULL THEN [bp |-> NULL, hang |-> FALSE]
    ELSE IF ULe(asize, GET_SIZE(s, HDRP(bp))) THEN [bp |-> bp, hang |-> FALSE]
    ELSE IF fuel = 0 THEN [bp |-> NULL, hang |-> TRUE]
    ELSE find_fit_from(s, NEXT_FREE(s, bp), asize, fuel - 1)

\* a scan that goes on to the end of the list and returns the last fit
RECURSIVE find_fit_last_from(_, _, _, _, _)
find_fit_last_from(s, bp, asize, fuel, last) ==
    IF bp = NULL THEN [bp |-> last, hang |-> FALSE]
    ELSE IF fuel = 0 THEN [bp |-> NULL, hang |-> TRUE]
    ELSE find_fit_last_from(s, NEXT_FREE(s, bp), asize, fuel - 1,
                            IF ULe(asize, GET_SIZE(s, HDRP(bp))) THEN bp ELSE last)

find_fit_last(s, asize) == find_fit_last_from(s, s.free_listp, asize, MaxWalk, NULL)
find_fit(s, asize) == find_fit_from(s, s.free_listp, asize, MaxWalk)

(***************************** public operations ***************************)
\* mm_init not looking at what extend_heap returns
mm_init_unchecked(s, grant1, grant2) ==
    LET r == mem_sbrk(s, 4 * WSIZE, grant1)
        s0 == [r.st EXCEPT !.heap_listp = r.rv]
    IN  IF r.rv = NEG1
        THEN [st |-> s0, rv |-> -1]
        ELSE LET s1 == PUT(s0, s0.heap_listp, 0)
                 s2 == PUT(s1, Add32(s1.heap_listp, 1 * WSIZE), PACK(DSIZE, 1))
                 s3 == PUT(s2, Add32(s2.heap_listp, 2 * WSIZE), PACK(DSIZE, 1))
                 s4 == PUT(s3, Add32(s3.heap_listp, 3 * WSIZE), PACK(0, 1))
                 s5 == [s4 EXCEPT !.epilogue = Add32(s4.heap_listp, 3 * WSIZE)]
                 s6 == [s5 EXCEPT !.heap_listp = Add32(s5.heap_listp, 2 * WSIZE)]
                 s7 == [s6 EXCEPT !.free_listp = NULL]
             IN  [st |-> extend_heap(s7, CHUNKSIZE \div WSIZE, grant2).st, rv |-> 0]

\* mm_init laying the heap out without the alignment padding word
mm_init_nopad(s, grant1, grant2) ==
    LET r == mem_sbrk(s, 3 * WSIZE, grant1)
        s0 == [r.st EXCEPT !.heap_listp = r.rv]
    IN  IF r.rv = NEG1
        THEN [st |-> s0, rv |-> -1]
        ELSE LET s2 == PUT(s0, s0.heap_listp, PACK(DSIZE, 1))
                 s3 == PUT(s2, Add32(s2.heap_listp, 1 * WSIZE), PACK(DSIZE, 1))
                 s4 == PUT(s3, Add32(s3.heap_listp, 2 * WSIZE), PACK(0, 1))
                 s5 == [s4 EXCEPT !.epilogue = Add32(s4.heap_listp, 2 * WSIZE)]
                 s6 == [s5 EXCEPT !.heap_listp = Add32(s5.heap_listp, 1 * WSIZE)]
                 s7 == [s6 EXCEPT !.free_listp = NULL]
                 e == extend_heap(s7, CHUNKSIZE \div WSIZE, grant2)
             IN  IF e.rv = NULL
                 THEN [st |-> e.st, rv |-> -1]
                 ELSE [st |-> e.st, rv |-> 0]

mm_init(s, grant1, grant2) ==
    LET r == mem_sbrk(s, 4 * WSIZE, grant1)
        s0 == [r.st EXCEPT !.heap_listp = r.rv]
    IN  IF r.rv = NEG1
        THEN [st |-> s0, rv |-> -1]
        ELSE LET s1 == PUT(s0, s0.heap_listp, 0)
                 s2 == PUT(s1, Add32(s1.heap_listp, 1 * WSIZE), PACK(DSIZE, 1))
                 s3 == PUT(s2, Add32(s2.heap_listp, 2 * WSIZE), PACK(DSIZE, 1))
                 s4 == PUT(s3, Add32(s3.heap_listp, 3 * WSIZE), PACK(0, 1))
                 s5 == [s4 EXCEPT !.epilogue = Add32(s4.heap_listp, 3 * WSIZE)]
                 s6 == [s5 EXCEPT !.heap_listp = Add32(s5.heap_listp, 2 * WSIZE)]
                 s7 == [s6 EXCEPT !.free_listp = NULL]
                 e == extend_heap(s7, CHUNKSIZE \div WSIZE, grant2)
             IN  IF e.rv = NULL
                 THEN [st |-> e.st, rv |-> -1]
                 ELSE [st |-> e.st, rv |-> 0]

\* a block size that leaves no room for the header and the footer
PayloadSize(size) ==
    IF ULe(size, DSIZE)
    THEN MINIMUM
    ELSE UMul(UDiv(Add32(size, DSIZE - 1), DSIZE), DSIZE)

\* the adjusted block size mm_malloc computes for a request of size > 0
AdjustedSize(size) ==
    IF ULe(size, DSIZE)
    THEN MINIMUM
    ELSE UMul(UDiv(Add32(Add32(size, DSIZE), DSIZE - 1), DSIZE), DSIZE)

\* mm_malloc from the return of extend_heap on; e is what extend_heap has
\* returned and left
malloc_extended(e, asize) ==
    IF e.rv = NULL
    THEN [st |-> e.st, rv |-> NULL, hang |-> FALSE]
    ELSE [st |-> place(e.st, e.rv, asize), rv |-> e.rv, hang |-> FALSE]

\* mm_malloc from the return of find_fit on; fit is what find_fit has returned
malloc_placed(s, asize, fit, grant) ==
    LET bp == fit.bp
        extendsize == MAX(asize, CHUNKSIZE)
    IN  IF fit.hang
        THEN [st |-> s, rv |-> NULL, hang |-> TRUE]
        ELSE IF bp # NULL
        THEN [st |-> place(s, bp, asize), rv |-> bp, hang |-> FALSE]
        ELSE CHOOSE r \in {malloc_extended(e, asize) :
                              e \in {extend_heap(s, UDiv(extendsize, WSIZE), grant)}} :
                        TRUE

\* hang: the call does not return (its first-fit scan runs forever)
mm_malloc(s, size, grant) ==
    IF size = 0
    THEN [st |-> s, rv |-> NULL, hang |-> FALSE]
    ELSE CHOOSE r \in {malloc_placed(s, asize, find_fit(s, asize), grant) :
                          asize \in {AdjustedSize(size)}} : TRUE

mm_free(s, ptr) ==
    IF ptr = NULL \/ s.heap_listp = NULL
    THEN s
    ELSE LET size == GET_SIZE(s, HDRP(ptr))
             s1 == PUT(s, HDRP(ptr), PACK(size, 0))
             s2 == PUT(s1, FTRP(s1, ptr), PACK(size, 0))
         IN  coalesce(s2, ptr).st

(******************************** realloc **********************************)
\* rounds up to the nearest multiple of ALIGNMENT
ALIGN(size) == Add32(size, ALIGNMENT - 1) - (Add32(size, ALIGNMENT - 1) % 8)
\* sizeof(size_t) is one word
SIZE_T_SIZE == ALIGN(WSIZE)

\* address a lies in the n bytes from base on
InRange(a, base, n) == ULt(Sub32(a, base), n)

\* memcpy(dst, src, n) for word-aligned dst and src.  A word copied from an
\* indeterminate word is indeterminate; so is the last word when n is no
\* multiple of 4 and it gets bytes of, or keeps bytes of, an indeterminate word.
memcpy(s, dst, src, n) ==
    LET n4 == n - (n % WSIZE)
        m == 2 ^ (8 * (n % WSIZE))
        from(a) == Add32(src, Sub32(a, dst))
        kept == {a \in DOMAIN s.mem : ~InRange(a, dst, n)}
        full == {Add32(dst, Sub32(b, src)) :
                    b \in {c \in DOMAIN s.mem : InRange(c, src, n4)}}
        last == IF n % WSIZE # 0 /\ Add32(dst, n4) \in DOMAIN s.mem
                   /\ Add32(src, n4) \in DOMAIN s.mem
                THEN {Add32(dst, n4)}
                ELSE {}
        overlap == n # 0 /\ (InRange(src, dst, n) \/ InRange(dst, src, n))
    IN  [s EXCEPT !.mem = [a \in kept \cup full \cup last |->
                              IF a \in full THEN s.mem[from(a)]
                              ELSE IF a \in last
                              THEN (s.mem[a] - (s.mem[a] % m)) + (s.mem[from(a)] % m)
                              ELSE s.mem[a]],
                  !.ub = s.ub \/ overlap]

\* mm_realloc from the return of its call of mm_malloc on; n is what that call
\* has returned and left
realloc_copy(n, oldptr, size) ==
    LET newptr == n.rv
    IN  IF n.hang \/ newptr = NULL
        THEN [st |-> n.st, rv |-> NULL, hang |-> n.hang]
        ELSE LET copySize0 == GET(n.st, Sub32(oldptr, SIZE_T_SIZE))
                 copySize == IF ULt(size, copySize0) THEN size ELSE copySize0
             IN  CHOOSE r \in {[st |-> mm_free(s1, oldptr), rv |-> newptr,
                                hang |-> FALSE] :
                                  s1 \in {memcpy(n.st, newptr, oldptr, copySize)}} : TRUE

mm_realloc(s, ptr, size, grant) ==
    CHOOSE r \in {realloc_copy(n, ptr, size) : n \in {mm_malloc(s, size, grant)}} : TRUE

(******************************* heap checker ******************************)
\* value of an audit whose loop does not terminate within MaxWalk steps
NoReturn == 2

RECURSIVE correct_free_marked_from(_, _, _)
correct_free_marked_from(s, bp, fuel) ==
    IF bp = NULL THEN 1
    ELSE IF fuel = 0 THEN NoReturn
    ELSE IF GET_ALLOC(s, HDRP(bp)) # 0 THEN 0
    ELSE correct_free_marked_from(s, NEXT_FREE(s, bp), fuel - 1)

correct_free_marked(s) == correct_free_marked_from(s, s.free_listp, MaxWalk)

check_coalescing(s) ==
    LET bp == s.heap_listp IN
    IF GET_ALLOC(s, bp) = 0
       /\ NEXT_BLKP(s, bp) # NULL /\ GET_ALLOC(s, HDRP(NEXT_BLKP(s, bp))) = 0
    THEN 0
    ELSE 1

\* the inner loop of check_freelist: 1 once bp is found on the list
RECURSIVE check_freelist_find(_, _, _, _)
check_freelist_find(s, bp, cmp, fuel) ==
    IF bp = cmp THEN 1
    ELSE IF fuel = 0 THEN NoReturn
    ELSE IF GET_SIZE(s, HDRP(cmp)) = 0 THEN 0
    ELSE check_freelist_find(s, bp, NEXT_FREE(s, cmp), fuel - 1)

RECURSIVE check_freelist_from(_, _, _)
check_freelist_from(s, bp, fuel) ==
    IF ~(bp # NULL /\ GET_SIZE(s, HDRP(bp)) # 0) THEN 1
    ELSE IF fuel = 0 THEN NoReturn
    ELSE LET found == IF GET_ALLOC(s, HDRP(bp)) = 0
                      THEN check_freelist_find(s, bp, s.free_listp, MaxWalk)
                      ELSE 1
         IN  IF found # 1 THEN found
             ELSE check_freelist_from(s, NEXT_BLKP(s, bp), fuel - 1)

check_freelist(s) == check_freelist_from(s, s.heap_listp, MaxWalk)

RECURSIVE check_overlap_from(_, _, _)
check_overlap_from(s, bp, fuel) ==
    IF ~(bp # NULL /\ GET_SIZE(s, HDRP(bp)) # 0) THEN 1
    ELSE IF fuel = 0 THEN NoReturn
    ELSE IF GET_ALLOC(s, HDRP(bp)) # 0
            /\ ULe(NEXT_BLKP(s, bp),
                   Sub32(Add32(bp, GET_SIZE(s, HDRP(bp))), WSIZE))
    THEN 0
    ELSE check_overlap_from(s, NEXT_BLKP(s, bp), fuel - 1)

check_overlap(s) == check_overlap_from(s, s.heap_listp, MaxWalk)

RECURSIVE check_valid_heap_from(_, _, _)
check_valid_heap_from(s, bp, fuel) ==
    IF ~ULt(bp, s.epilogue) THEN 1
    ELSE IF fuel = 0 THEN NoReturn
    ELSE IF ULt(HDRP(bp), HDRP(NEXT_BLKP(s, s.heap_listp)))
            \/ GET_ALIGN(s, HDRP(bp)) # 8
    THEN 0
    ELSE check_valid_heap_from(s, NEXT_BLKP(s, bp), fuel - 1)

check_valid_heap(s) == check_valid_heap_from(s, NEXT_BLKP(s, s.heap_listp), MaxWalk)

RECURSIVE check_consistency_from(_, _, _)
check_consistency_from(s, free, fuel) ==
    IF free = NULL THEN 1
    ELSE IF fuel = 0 THEN NoReturn
    ELSE IF GET_ALLOC(s, HDRP(free)) # 0 \/ GET_ALLOC(s, FTRP(s, free)) # 0 THEN 0
    ELSE check_consistency_from(s, NEXT_FREE(s, free), fuel - 1)

check_consistency(s) == check_consistency_from(s, s.free_listp, MaxWalk)

mm_check(s) ==
    IF correct_free_marked(s) # 1 THEN correct_free_marked(s)
    ELSE IF check_coalescing(s) # 1 THEN check_coalescing(s)
    ELSE IF check_freelist(s) # 1 THEN check_freelist(s)
    ELSE IF check_overlap(s) # 1 THEN check_overlap(s)
    ELSE IF check_valid_heap(s) # 1 THEN check_valid_heap(s)
    ELSE IF check_consistency(s) # 1 THEN check_consistency(s)
    ELSE 1

(**************************** reading the heap *****************************)
\* the allocator state as it stands, indeterminate words reading as g
Cur(g) == [mem |-> mem, mem_brk |-> mem_brk, heap_listp |-> heap_listp,
           free_listp |-> free_listp, epilogue |-> epilogue, g |-> g, req |-> 0,
           ub |-> FALSE]
H == Cur(0)

\* most blocks a heap walk visits
MaxBlocks == 2 * MaxCalls + 4

\* the payload pointers met walking the heap from bp until a header of size 0
RECURSIVE HeapWalk(_, _, _)
HeapWalk(s, bp, fuel) ==
    IF fuel = 0 \/ GET_SIZE(s, HDRP(bp)) = 0 THEN <<>>
    ELSE <<bp>> \o HeapWalk(s, NEXT_BLKP(s, bp), fuel - 1)

\* where that walk stops
RECURSIVE WalkEnd(_, _, _)
WalkEnd(s, bp, fuel) ==
    IF fuel = 0 \/ GET_SIZE(s, HDRP(bp)) = 0 THEN bp
    ELSE WalkEnd(s, NEXT_BLKP(s, bp), fuel - 1)

\* the first real block follows the prologue
FirstBlock(s) == NEXT_BLKP(s, s.heap_listp)
Blocks == HeapWalk(H, FirstBlock(H), MaxBlocks)
BlockSet == {Blocks[i] : i \in DOMAIN Blocks}
Size(bp) == GET_SIZE(H, HDRP(bp))
IsFree(bp) == GET_ALLOC(H, HDRP(bp)) = 0
FreeBlocks == {bp \in BlockSet : IsFree(bp)}

\* the payload pointers met following next_free from bp
RECURSIVE ListWalk(_, _, _)
ListWalk(s, bp, fuel) ==
    IF fuel = 0 \/ bp = NULL THEN <<>>
    ELSE <<bp>> \o ListWalk(s, NEXT_FREE(s, bp), fuel - 1)

FreeList == ListWalk(H, free_listp, MaxBlocks)
FreeListSet == {FreeList[i] : i \in DOMAIN FreeList}

\* x lies in the payload range [p, p + size(p) - 8) of the block at p
InPayload(s, x, p) ==
    /\ ULe(DSIZE, GET_SIZE(s, HDRP(p)))
    /\ ULt(Sub32(x, p), Sub32(GET_SIZE(s, HDRP(p)), DSIZE))

Overlap(s, p, q) == InPayload(s, p, q) \/ InPayload(s, q, p)

\* the heap is between two calls of a run without undefined behaviour
AtRest == inited = "ok" /\ ~undef

NoAdjacentFree ==
    \A i \in DOMAIN Blocks :
        i + 1 \in DOMAIN Blocks => ~(IsFree(Blocks[i]) /\ IsFree(Blocks[i + 1]))

ListIsFreeSet ==
    /\ FreeBlocks = FreeListSet
    /\ (free_listp = NULL) <=> (FreeBlocks = {})

SizesOK == \A bp \in BlockSet : Size(bp) % 8 = 0 /\ Size(bp) >= MINIMUM

Tiled ==
    /\ HDRP(WalkEnd(H, FirstBlock(H), MaxBlocks)) = mem_brk - WSIZE
    /\ mem_brk - WSIZE \in DOMAIN mem
    /\ mem[mem_brk - WSIZE] = PACK(0, 1)
    /\ \A bp \in BlockSet : /\ FTRP(H, bp) \in DOMAIN mem
                             /\ GET(H, FTRP(H, bp)) = GET(H, HDRP(bp))

\* the free list is a proper doubly linked list
ListLinked ==
    /\ Len(FreeList) < MaxBlocks
    /\ \A i \in DOMAIN FreeList :
          /\ FreeList[i] \in DOMAIN mem /\ FreeList[i] + WSIZE \in DOMAIN mem
          /\ PREV_FREE(H, FreeList[i]) = IF i = 1 THEN NULL ELSE FreeList[i - 1]
          /\ \A j \in DOMAIN FreeList : FreeList[i] = FreeList[j] => i = j

PrologueOK ==
    /\ heap_listp = MemBase + DSIZE
    /\ GET(H, HDRP(heap_listp)) = PACK(DSIZE, 1)
    /\ GET(H, heap_listp) = PACK(DSIZE, 1)

\* every pointer the client holds is an allocated block, held once
LiveAllocated ==
    \A p \in DOMAIN live : live[p] = 1 /\ p \in BlockSet /\ ~IsFree(p)

HeapOK ==
    /\ PrologueOK
    /\ Tiled
    /\ SizesOK
    /\ NoAdjacentFree
    /\ ListIsFreeSet
    /\ ListLinked
    /\ LiveAllocated


(******************************* the client ********************************)
\* request sizes the client draws from: nothing, small, one that is rounded up,
\* one that is placed without a split, one larger than a chunk, and the two
\* kinds of size whose rounding wraps around 2^32 (0xFFFFFFF8 and 0xFFFFFFFF)
ReqSizes == {0, 1, DSIZE, 9, CHUNKSIZE - 16, CHUNKSIZE + 904, -8, -1}

\* the client's pointers after it was handed p, and after it freed p
Held(l, p) ==
    [x \in DOMAIN l \cup {p} |-> IF x \in DOMAIN l
                                 THEN (IF x = p THEN l[x] + 1 ELSE l[x])
                                 ELSE 1]
Released(l, p) ==
    [x \in {y \in DOMAIN l : y # p \/ l[y] > 1} |-> IF x = p THEN l[x] - 1 ELSE l[x]]

Commit(s) ==
    /\ mem' = s.mem
    /\ mem_brk' = s.mem_brk
    /\ heap_listp' = s.heap_listp
    /\ free_listp' = s.free_listp
    /\ epilogue' = s.epilogue
    /\ asked' = s.req

Init ==
    /\ mem = <<>>
    /\ mem_brk = MemBase
    /\ heap_listp = NULL
    /\ free_listp = NULL
    /\ epilogue = 0
    /\ inited = "no"
    /\ live = <<>>
    /\ op = [name |-> "none", arg |-> 0]
    /\ ret = 0
    /\ hist = "alloc"
    /\ oom = "no"
    /\ sound = FALSE
    /\ ncalls = 0
    /\ asked = 0
    /\ log = <<>>
    /\ undef = FALSE

\* the outcome of a call, leaving out which indeterminate value it was run with
Outcome(r) == [r EXCEPT !.st.g = 0]

\* A call whose outcome depends on what an indeterminate read yields, or that
\* stores outside the heap area, has undefined behaviour: each of its outcomes
\* is explored, and the run is not followed further.
MmInit ==
    /\ inited = "no"
    /\ \E grant1 \in BOOLEAN, grant2 \in BOOLEAN :
         \E rs \in {{Outcome(mm_init(Cur(g), grant1, grant2)) : g \in Garbage}} :
         \E r \in rs :
         /\ Commit(r.st)
         /\ undef' = (Cardinality(rs) > 1 \/ WildStore(r.st) \/ r.st.ub)
         /\ inited' = IF r.rv = 0 THEN "ok" ELSE "failed"
         /\ ret' = r.rv
         \* arg: which of the two requests mem_sbrk refuses (0: none)
         /\ op' = [name |-> "init",
                   arg |-> IF ~grant1 THEN 1 ELSE IF ~grant2 THEN 2 ELSE 0]
    /\ UNCHANGED <<live, hist, oom, sound, ncalls, log>>

\* mm_malloc called by a client that draws sizes from sizes, meets a mem_sbrk
\* whose willingness is drawn from grants, makes at most limit calls and keeps
\* a log of them if logged
MmMallocBy(sizes, grants, limit, logged) ==
    /\ inited = "ok"
    /\ ~undef
    /\ ncalls < limit
    /\ sound' = HeapOK
    /\ ncalls' = ncalls + 1
    /\ \E size \in sizes, grant \in grants :
         \E rs \in {{Outcome(mm_malloc(Cur(g), size, grant)) : g \in Garbage}} :
         \E r \in rs :
         /\ ~r.hang
         /\ Commit(r.st)
         /\ undef' = (Cardinality(rs) > 1 \/ WildStore(r.st) \/ r.st.ub)
         /\ ret' = r.rv
         /\ live' = IF r.rv = NULL THEN live ELSE Held(live, r.rv)
         /\ op' = [name |-> "malloc", arg |-> size]
         /\ hist' = IF r.rv = NULL \/ hist = "alloc" THEN hist ELSE "mixed"
         /\ oom' = IF r.rv = NULL /\ size # 0 THEN "refused"
                   ELSE IF r.rv # NULL /\ oom = "freed" /\ r.st.mem_brk = mem_brk
                   THEN "reused"
                   ELSE oom
         /\ log' = IF logged
                   THEN Append(log, [name |-> "malloc", arg |-> size, ret |-> r.rv])
                   ELSE log
    /\ UNCHANGED inited

MmMallocOf(sizes) == MmMallocBy(sizes, BOOLEAN, MaxCalls, FALSE)

MmMalloc == MmMallocOf(ReqSizes)

\* mm_free of a pointer the client holds
MmFreeBy(limit, logged) ==
    /\ inited = "ok"
    /\ ~undef
    /\ ncalls < limit
    /\ sound' = HeapOK
    /\ ncalls' = ncalls + 1
    /\ \E ptr \in DOMAIN live :
         \E rs \in {{Outcome([st |-> mm_free(Cur(g), ptr)]) : g \in Garbage}} :
         \E r \in rs :
         /\ Commit(r.st)
         /\ undef' = (Cardinality(rs) > 1 \/ WildStore(r.st) \/ r.st.ub)
         /\ live' = Released(live, ptr)
         /\ op' = [name |-> "free", arg |-> ptr]
         /\ log' = IF logged
                   THEN Append(log, [name |-> "free", arg |-> ptr, ret |-> 0])
                   ELSE log
    /\ ret' = 0
    /\ hist' = IF hist = "alloc" THEN "free" ELSE hist
    /\ oom' = IF oom = "refused" THEN "freed" ELSE oom
    /\ UNCHANGED inited

MmFree == MmFreeBy(MaxCalls, FALSE)

\* pointers a client passes to mm_free without holding them: null and the
\* address the first payload has in an initialised heap
StrayPtrs == {NULL, MemBase + 4 * WSIZE}

\* mm_free of the null pointer, in any state, or of a pointer passed while
\* mm_init has not been called or has failed
MmFreeStray ==
    /\ ~undef
    /\ ncalls < MaxCalls
    /\ ncalls' = ncalls + 1
    /\ \E ptr \in StrayPtrs :
         /\ ptr = NULL \/ inited # "ok"
         /\ \E rs \in {{Outcome([st |-> mm_free(Cur(g), ptr)]) : g \in Garbage}} :
            \E r \in rs :
            /\ Commit(r.st)
            /\ undef' = (Cardinality(rs) > 1 \/ WildStore(r.st) \/ r.st.ub)
            /\ op' = [name |-> "free", arg |-> ptr]
    /\ ret' = 0
    /\ UNCHANGED <<inited, live, hist, oom, sound, log>>

\* sizes the client passes to mm_realloc
ReallocSizes == {0, DSIZE + 1}

\* mm_realloc of a pointer the client holds; the client goes on holding it when
\* the call returns null
MmRealloc ==
    /\ inited = "ok"
    /\ ~undef
    /\ ncalls < MaxCalls
    /\ sound' = HeapOK
    /\ ncalls' = ncalls + 1
    /\ \E ptr \in DOMAIN live, size \in ReallocSizes, grant \in BOOLEAN :
         \E rs \in {{Outcome(mm_realloc(Cur(g), ptr, size, grant)) : g \in Garbage}} :
         \E r \in rs :
         /\ ~r.hang
         /\ Commit(r.st)
         /\ undef' = (Cardinality(rs) > 1 \/ WildStore(r.st) \/ r.st.ub)
         /\ ret' = r.rv
         /\ live' = IF r.rv = NULL THEN live ELSE Held(Released(live, ptr), r.rv)
         /\ op' = [name |-> "realloc", arg |-> ptr, size |-> size]
         /\ hist' = IF r.rv = NULL THEN hist ELSE "mixed"
         /\ oom' = IF r.rv = NULL /\ size # 0 THEN "refused" ELSE oom
    /\ UNCHANGED <<inited, log>>

\* mm_check called between two calls; it only reads
MmCheck ==
    /\ inited = "ok"
    /\ ~undef
    /\ op.name # "check"
    /\ \E rs \in {{mm_check(Cur(g)) : g \in Garbage}} :
         \E r \in rs :
         /\ ret' = r
         /\ undef' = (Cardinality(rs) > 1)
    /\ op' = [name |-> "check", arg |-> 0]
    /\ asked' = 0
    /\ UNCHANGED <<mem, mem_brk, heap_listp, free_listp, epilogue, inited, live,
                   hist, oom, sound, ncalls, log>>

Next == MmInit \/ MmMalloc \/ MmFree \/ MmCheck

Spec == Init /\ [][Next]_vars

\* the same client without the requests whose rounding wraps
PlainSizes == {0, 1, DSIZE, 9, CHUNKSIZE - 16, CHUNKSIZE + 904}
MmMallocPlain == MmMallocOf(PlainSizes)
NextPlain == MmInit \/ MmMallocPlain \/ MmFree \/ MmCheck
SpecPlain == Init /\ [][NextPlain]_vars

\* a client that resizes the blocks it holds
NextRealloc == MmInit \/ MmMallocPlain \/ MmRealloc
SpecRealloc == Init /\ [][NextRealloc]_vars

\* a client that also frees pointers it does not hold
NextStray == MmInit \/ MmMallocPlain \/ MmFree \/ MmFreeStray
SpecStray == Init /\ [][NextStray]_vars

\* heap states for the heap checker, reachable or not: up to MaxAuditBlocks
\* blocks, each of a size in AuditSizes, allocated or free, between prologue
\* and epilogue, the free ones linked into the list in address order
MaxAuditBlocks == 3
AuditSizes == {MINIMUM, MINIMUM + DSIZE}
AuditLayouts ==
    UNION {[1..n -> [size : AuditSizes, alloc : {0, 1}]] : n \in 1..MaxAuditBlocks}
\* the payload address of the i-th block of layout bs
RECURSIVE BlockAt(_, _)
BlockAt(bs, i) ==
    IF i = 1 THEN MemBase + 4 * WSIZE ELSE BlockAt(bs, i - 1) + bs[i - 1].size
\* the payload address of the nearest free block of bs before (d = -1) or
\* after (d = 1) the i-th, or 0
RECURSIVE FreeBeside(_, _, _)
FreeBeside(bs, i, d) ==
    IF i + d \notin DOMAIN bs THEN 0
    ELSE IF bs[i + d].alloc = 0 THEN BlockAt(bs, i + d)
    ELSE FreeBeside(bs, i + d, d)
\* the words of the heap with layout bs, as pairs <<address, content>>
HeapWords(bs) ==
    {<<MemBase, 0>>, <<MemBase + WSIZE, PACK(DSIZE, 1)>>,
     <<MemBase + 2 * WSIZE, PACK(DSIZE, 1)>>,
     <<BlockAt(bs, Len(bs)) + bs[Len(bs)].size - WSIZE, PACK(0, 1)>>}
    \cup UNION {{<<BlockAt(bs, i) - WSIZE, PACK(bs[i].size, bs[i].alloc)>>,
                 <<BlockAt(bs, i) + bs[i].size - DSIZE,
                   PACK(bs[i].size, bs[i].alloc)>>} : i \in DOMAIN bs}
    \cup UNION {{<<BlockAt(bs, i), FreeBeside(bs, i, -1)>>,
                 <<BlockAt(bs, i) + WSIZE, FreeBeside(bs, i, 1)>>} :
                    i \in {j \in DOMAIN bs : bs[j].alloc = 0}}
HeapOf(bs) ==
    [a \in {w[1] : w \in HeapWords(bs)} |->
        (CHOOSE w \in HeapWords(bs) : w[1] = a)[2]]

InitAudit ==
    /\ \E bs \in AuditLayouts :
         /\ mem = HeapOf(bs)
         /\ mem_brk = BlockAt(bs, Len(bs)) + bs[Len(bs)].size
         /\ free_listp = FreeBeside(bs, 0, 1)
    /\ heap_listp = MemBase + DSIZE
    /\ epilogue = MemBase + 3 * WSIZE
    /\ inited = "ok"
    /\ live = <<>>
    /\ op = [name |-> "none", arg |-> 0]
    /\ ret = 0
    /\ hist = "mixed"
    /\ oom = "no"
    /\ sound = FALSE
    /\ ncalls = 0
    /\ asked = 0
    /\ log = <<>>
    /\ undef = FALSE

\* mm_check run on any such heap state
SpecAudit == InitAudit /\ [][MmCheck]_vars

\* a scripted client: it asks for 16 or 32 bytes, mem_sbrk never refuses it at
\* will, it makes a few more calls and it keeps a log of them
SeqSizes == {2 * DSIZE, 4 * DSIZE}
MaxSeq == MaxCalls + 3
MmMallocSeq == MmMallocBy(SeqSizes, {TRUE}, MaxSeq, TRUE)
MmFreeSeq == MmFreeBy(MaxSeq, TRUE)
NextSeq == MmInit \/ MmMallocSeq \/ MmFreeSeq
SpecSeq == Init /\ [][NextSeq]_vars

(********************************* claims **********************************)
\* C1: any two distinct pointers the client holds designate disjoint payload
\* ranges [p, p + size(p) - 8), and mm_malloc never returns a pointer that the
\* client already holds or that lies inside a block it holds.
C1_LiveDisjoint ==
    AtRest =>
        /\ \A p \in DOMAIN live : live[p] = 1
        /\ \A p \in DOMAIN live, q \in DOMAIN live : p # q => ~Overlap(H, p, q)

\* C2: for every request size s > 0 of the whole size_t range, a non-null
\* pointer returned by mm_malloc(s) heads a block whose usable size,
\* GET_SIZE(header) - 8, is at least s.
C2_UsableSize ==
    (AtRest /\ op.name = "malloc" /\ ret # NULL) =>
        /\ ULe(DSIZE, Size(ret))
        /\ ULe(op.arg, Sub32(Size(ret), DSIZE))

\* C3: with an 8-byte aligned heap base, every non-null pointer returned by
\* mm_malloc and the payload pointer of every real block of the heap is a
\* multiple of 8.
C3_Aligned ==
    /\ (inited = "ok" /\ op.name = "malloc" /\ ret # NULL) => ret % ALIGNMENT = 0
    /\ inited = "ok" => \A bp \in BlockSet : bp % ALIGNMENT = 0

\* C3 witness: mm_malloc has grown the heap and returned a block, and the heap
\* holds several blocks, one of them free.
C3_GrownAndSplit ==
    /\ AtRest /\ op.name = "malloc" /\ ret # NULL
    /\ mem_brk > MemBase + 4 * WSIZE + CHUNKSIZE
    /\ Len(Blocks) >= 3
    /\ FreeBlocks # {}

\* C4: on return from mm_init, mm_malloc and mm_free, no two blocks adjacent in
\* heap order both have allocated bit 0.
C4_NoAdjacentFree == AtRest => NoAdjacentFree

\* C5: on return from every public operation, the blocks with allocated bit 0
\* met walking the heap are exactly the blocks reached from free_listp through
\* next_free, and free_listp is null exactly when there is no free block.
C5_FreeListMatchesHeap == AtRest => ListIsFreeSet

\* C6: on return from every public operation, for any request sizes of the full
\* size_t range, every real block has a size that is a multiple of 8 and at
\* least 16.
C6_BlockSizes == AtRest => SizesOK

\* C7: on return from every public operation, adding the header sizes from the
\* first real block on reaches the epilogue header (size 0, allocated) at the
\* last word of the heap, and every real block's footer equals its header.
C7_Tiled == AtRest => Tiled

\* C8: after a successful mm_init and any sequence of mm_malloc and mm_free,
\* mm_check called between two calls returns 1.
C8_CheckPasses == (AtRest /\ op.name = "check") => ret = 1

\* C9: after allocating n blocks and then freeing all n of them, the sizes of
\* the blocks on the free list add up to the heap size minus the 16 bytes of
\* padding, prologue and epilogue.
C9_RoundTrip ==
    (AtRest /\ hist = "free" /\ live = <<>>) =>
        LET sum[i \in 0..Len(FreeList)] ==
                IF i = 0 THEN 0 ELSE sum[i - 1] + Size(FreeList[i])
        IN  sum[Len(FreeList)] = (mem_brk - MemBase) - 4 * WSIZE

\* a step that is a call of mm_malloc(size > 0)
MallocStep == op'.name = "malloc" /\ op'.arg # 0 /\ ncalls' = ncalls + 1
\* some free block is large enough for a request of size bytes
Fits(size) == \E bp \in FreeBlocks : ULe(size, Sub32(Size(bp), DSIZE))

\* mem_sbrk refuses every extension mm_malloc can ask for, the least being
\* CHUNKSIZE
Exhausted == MemBase + MaxHeap - mem_brk < CHUNKSIZE
\* a request no free block fits, made while mem_sbrk refuses, returns null
RefusedNull ==
    (HeapOK /\ MallocStep /\ ~Fits(op'.arg) /\ Exhausted) => (ret' = NULL /\ ~undef')
\* mm_malloc returning null has changed nothing
NullUnchanged ==
    (HeapOK /\ MallocStep /\ ret' = NULL) =>
        (UNCHANGED <<mem, free_listp, heap_listp, mem_brk>> /\ ~undef')
\* after a refusal, a request that fits a free block is served from it
FitAfterRefusal ==
    (oom # "no" /\ HeapOK /\ MallocStep /\ Fits(op'.arg)) =>
        /\ ret' # NULL /\ ret' \in FreeBlocks
        /\ mem_brk' = mem_brk
        /\ ~undef'
\* after a refusal, mm_free of a held pointer keeps the heap invariants
FreeAfterRefusal ==
    (inited = "ok" /\ oom # "no" /\ op.name = "free" /\ sound) => (HeapOK /\ ~undef)

\* C10: when no free block fits and mem_sbrk refuses, mm_malloc returns null
\* and leaves the heap words, free_listp and the heap extent unchanged;
\* afterwards mm_free of a held pointer keeps the heap invariants, and an
\* mm_malloc of a size that fits a free block succeeds.
C10_OutOfMemory ==
    /\ [][RefusedNull /\ NullUnchanged /\ FitAfterRefusal]_vars
    /\ []FreeAfterRefusal

\* the first block in free-list order whose size is at least asize, or NULL
FirstFit(asize) ==
    LET fits == {i \in DOMAIN FreeList : ULe(asize, Size(FreeList[i]))}
    IN  IF fits = {} THEN NULL
        ELSE FreeList[CHOOSE i \in fits : \A j \in fits : i <= j]
\* a call that finds a block of sufficient size on the list returns the first
ReturnsFirstFit ==
    (AtRest /\ MallocStep /\ FirstFit(AdjustedSize(op'.arg)) # NULL) =>
        ret' = FirstFit(AdjustedSize(op'.arg))
\* the calls so far are a = alloc(16), b = alloc(16), c = alloc(16), free(b)
\* and one more alloc(16)
AllocThreeFreeSecondAlloc ==
    /\ Len(log) = 5
    /\ \A i \in {1, 2, 3, 5} : log[i].name = "malloc" /\ log[i].arg = 16
    /\ log[4].name = "free" /\ log[4].arg = log[2].ret

\* C11: when some block on the free list has size >= asize, mm_malloc returns
\* the first such block in free-list order, never a later one; after
\* a = alloc(16), b = alloc(16), c = alloc(16), free(b) the next alloc(16)
\* returns b.
C11_FirstFit ==
    /\ [][ReturnsFirstFit]_vars
    /\ [](AllocThreeFreeSecondAlloc => log[5].ret = log[2].ret)
\* the scenario has run, the free list holding b before the remainder block
C11_FreedBlockReused ==
    AllocThreeFreeSecondAlloc /\ log[5].ret = log[2].ret /\ log[5].ret # NULL

\* the calls so far are a, b, c, d = alloc(32), free(a), free(c), free(b)
AllocFourFreeThree ==
    /\ Len(log) = 7
    /\ \A i \in 1..4 : log[i].name = "malloc" /\ log[i].arg = 32
    /\ \A i \in 5..7 : log[i].name = "free"
    /\ log[5].arg = log[1].ret /\ log[6].arg = log[3].ret /\ log[7].arg = log[2].ret
\* the blocks of a, b and c are one free block of size bytes that starts at a
\* and ends where the allocated block of d starts
ThreeMerged(size) ==
    LET a == log[1].ret
        b == log[2].ret
        c == log[3].ret
        d == log[4].ret
    IN  /\ a \in FreeBlocks /\ Size(a) = size
        /\ GET(H, HDRP(a)) = PACK(size, 0) /\ GET(H, FTRP(H, a)) = PACK(size, 0)
        /\ a < b /\ b < c /\ c < d
        /\ BlockSet \cap {b, c} = {}
        /\ d = a + size /\ d \in BlockSet /\ ~IsFree(d)

\* C12 (as stated): on a fresh heap, after a, b, c, d = alloc(32), free(a),
\* free(c), free(b), the blocks of a, b and c form one free block starting at
\* a whose size is 96 bytes, while d stays allocated.
C12_Merged96 == (AtRest /\ AllocFourFreeThree) => ThreeMerged(96)
\* C12 (amended): the same, the size of the merged block being 120 bytes, three
\* blocks of 40 bytes each (32 bytes of payload, header and footer).
C12_Merged120 == (AtRest /\ AllocFourFreeThree) => ThreeMerged(120)
\* the three frees have run and left the merged block at the head of the list
C12_ThreeFreed == AtRest /\ AllocFourFreeThree /\ free_listp = log[1].ret

\* the allocator state a step leaves
After ==
    [mem |-> mem', mem_brk |-> mem_brk', heap_listp |-> heap_listp',
     free_listp |-> free_listp', epilogue |-> epilogue', g |-> 0, req |-> 0,
     ub |-> FALSE]
\* x is 16 for a request of s <= 8 bytes and 8 * ceil((s + 8) / 8) otherwise,
\* that is the multiple of 8 among s + 8 .. s + 15 (s and x unsigned)
NormalSize(s, x) ==
    IF ULe(s, DSIZE)
    THEN x = 16
    ELSE x % 8 = 0 /\ ULe(s, x) /\ Sub32(x, s) \in 8..15
\* the step has split a block: the remainder behind the block returned is the
\* head of the free list
SplitDone ==
    /\ ret' # NULL /\ ~undef'
    /\ free_listp' = Add32(ret', GET_SIZE(After, HDRP(ret')))
    /\ GET_ALLOC(After, HDRP(free_listp')) = 0

\* C13: for every request s > 0 the adjusted block size mm_malloc uses is 16
\* when s <= 8 and 8 * ceil((s + 8) / 8) otherwise; alloc(1) and alloc(8)
\* produce a block of size 16 and alloc(9) one of size 24 when the chosen free
\* block is split.
C13_SizeNormalised ==
    [][(AtRest /\ MallocStep) =>
          /\ NormalSize(op'.arg, AdjustedSize(op'.arg))
          /\ SplitDone => /\ NormalSize(op'.arg, GET_SIZE(After, HDRP(ret')))
                          /\ op'.arg \in {1, 8} => GET_SIZE(After, HDRP(ret')) = 16
                          /\ op'.arg = 9 => GET_SIZE(After, HDRP(ret')) = 24]_vars

\* C14: mm_free(p) changes no heap word, nor free_listp, nor the heap extent
\* when p is null, in any state, and for any p when mm_init has not been
\* called or has not returned success (the first mem_sbrk request refused
\* included).
C14_StrayFreeNoOp ==
    [][(op'.name = "free" /\ ncalls' = ncalls + 1
            /\ (op'.arg = NULL \/ inited # "ok")) =>
          UNCHANGED <<mem, free_listp, mem_brk>>]_vars

\* the free list a step leaves
FreeListAfter == ListWalk(After, free_listp', MaxBlocks)
\* after the step, p lies in a free block that is on the free list and has no
\* free heap neighbour
FreedAfter(p) ==
    \E i \in DOMAIN FreeListAfter :
        LET bp == FreeListAfter[i] IN
        /\ GET_ALLOC(After, HDRP(bp)) = 0
        /\ ULe(bp, p) /\ ULt(Sub32(p, bp), GET_SIZE(After, HDRP(bp)))
        /\ GET_ALLOC(After, HDRP(PREV_BLKP(After, bp))) = 1
        /\ GET_ALLOC(After, HDRP(NEXT_BLKP(After, bp))) = 1

\* C15: mm_realloc(p, 0) with p a live pointer behaves as mm_free(p) and
\* returns null: after the call the block of p has allocated bit 0, is on the
\* free list and has been coalesced with its free neighbours.
C15_ReallocZeroFrees ==
    [][(AtRest /\ op'.name = "realloc" /\ ncalls' = ncalls + 1 /\ op'.size = 0) =>
          (ret' = NULL /\ FreedAfter(op'.arg))]_vars

\* the words of the heap mm_init builds: padding, prologue header and footer,
\* the header, the two link words and the footer of one free block of
\* CHUNKSIZE bytes, and the epilogue header in the last word
FreshHeap ==
    LET bp == MemBase + 4 * WSIZE IN
    (MemBase :> 0) @@ (MemBase + WSIZE :> PACK(8, 1))
        @@ (MemBase + 2 * WSIZE :> PACK(8, 1))
        @@ (bp - WSIZE :> PACK(4096, 0)) @@ (bp :> 0) @@ (bp + WSIZE :> 0)
        @@ (bp + 4096 - DSIZE :> PACK(4096, 0))
        @@ (bp + 4096 - WSIZE :> PACK(0, 1))

\* C16: mm_init returns -1 if and only if one of its two requests to mem_sbrk
\* is refused; when it returns 0 the heap is exactly padding, prologue header
\* and footer (8, allocated), one free block of 4096 bytes with header and
\* footer (4096, free), and the epilogue header (0, allocated) in the last
\* word, free_listp pointing at that block, whose two link words are 0.
C16_InitLayout ==
    op.name = "init" =>
        /\ ret \in {0, -1}
        /\ ret = -1 <=> op.arg # 0
        /\ ret = 0 => /\ mem = FreshHeap
                      /\ mem_brk = MemBase + 4 * WSIZE + 4096
                      /\ free_listp = MemBase + 4 * WSIZE
                      /\ Blocks = <<free_listp>> /\ FreeList = <<free_listp>>
                      /\ ~undef
\* mm_init has returned 0
C16_InitDone == op.name = "init" /\ ret = 0 /\ mem = FreshHeap

\* C17: on return from a successful mm_init and from every mm_malloc and
\* mm_free, the global epilogue holds the address of the current epilogue
\* header, the last word of the heap, whose content is (0, allocated), also
\* after the heap has grown.
C17_EpilogueCurrent ==
    (AtRest /\ op.name \in {"init", "malloc", "free"}) =>
        /\ epilogue = mem_brk - WSIZE
        /\ GET(H, epilogue) = PACK(0, 1)

\* a step that is a call of mm_free on a pointer the client holds
FreeStep == op'.name = "free" /\ ncalls' = ncalls + 1 /\ op'.arg \in DOMAIN live
\* the free blocks next to the block at p in address order, before the step
FreeNeighbours(p) ==
    {Blocks[j] : j \in {i \in DOMAIN Blocks :
                            /\ \/ (i + 1 \in DOMAIN Blocks /\ Blocks[i + 1] = p)
                               \/ (i - 1 \in DOMAIN Blocks /\ Blocks[i - 1] = p)
                            /\ IsFree(Blocks[i])}}
\* the sum of the sizes of the blocks in S
RECURSIVE SumSizes(_)
SumSizes(S) ==
    IF S = {} THEN 0
    ELSE LET bp == CHOOSE x \in S : TRUE
         IN  Add32(Size(bp), SumSizes(S \ {bp}))
\* the step has left the block of p, merged with the neighbours that were
\* free, as one free block between allocated blocks at the head of the list
MergedAfter(p) ==
    LET start == CHOOSE x \in FreeNeighbours(p) \cup {p} :
                     \A y \in FreeNeighbours(p) \cup {p} : x <= y
        total == SumSizes(FreeNeighbours(p) \cup {p})
    IN  /\ p \in BlockSet
        /\ GET(After, HDRP(start)) = PACK(total, 0)
        /\ GET(After, Add32(start, Sub32(total, DSIZE))) = PACK(total, 0)
        /\ GET_ALLOC(After, Sub32(start, DSIZE)) = 1
        /\ GET_ALLOC(After, HDRP(Add32(start, total))) = 1
        /\ free_listp' = start
        /\ PREV_FREE(After, start) = 0
        /\ \A i \in DOMAIN FreeListAfter :
               FreeListAfter[i] \notin (FreeNeighbours(p) \cup {p}) \ {start}
        /\ ~undef'

\* C18: after mm_free(p) on a live pointer p, the bytes of p's block belong to
\* one free block whose size is size(p) plus the sizes of the immediate heap
\* neighbours that were free before the call; its header and footer carry that
\* size with allocated bit 0, its two heap neighbours are allocated, it is the
\* head of the free list with prev_free = 0, and the absorbed neighbours are
\* no longer on the free list.
C18_FreeMerges == [][(AtRest /\ FreeStep) => MergedAfter(op'.arg)]_vars

\* the free blocks that end where the heap ends (one at most)
FreeTail == {Blocks[i] : i \in {j \in DOMAIN Blocks : j = Len(Blocks) /\ IsFree(Blocks[j])}}
\* the block a call of mm_malloc places its request in: the first fit, or else
\* the bytes the step adds to the heap together with the free block at the
\* old heap end, if there is one
PlacedIn(asize) ==
    IF FirstFit(asize) # NULL THEN FirstFit(asize)
    ELSE IF FreeTail # {} THEN CHOOSE bp \in FreeTail : TRUE
    ELSE mem_brk
PlacedSize(asize) ==
    IF FirstFit(asize) # NULL THEN Size(FirstFit(asize))
    ELSE Add32(mem_brk' - mem_brk, SumSizes(FreeTail))
\* the step has placed asize bytes in the free block at bp of csize bytes
Placed(bp, asize, csize) ==
    LET rest == Add32(bp, asize)
        left == Sub32(csize, asize)
    IN  /\ ULe(asize, csize)
        /\ ret' = bp
        /\ ~undef'
        /\ \A i \in DOMAIN FreeListAfter : FreeListAfter[i] # bp
        /\ IF ULe(MINIMUM, left)
           THEN /\ GET(After, HDRP(bp)) = PACK(asize, 1)
                /\ GET(After, Add32(bp, Sub32(asize, DSIZE))) = PACK(asize, 1)
                /\ GET(After, HDRP(rest)) = PACK(left, 0)
                /\ GET(After, Add32(rest, Sub32(left, DSIZE))) = PACK(left, 0)
                /\ \E i \in DOMAIN FreeListAfter : FreeListAfter[i] = rest
           ELSE /\ GET(After, HDRP(bp)) = PACK(csize, 1)
                /\ GET(After, Add32(bp, Sub32(csize, DSIZE))) = PACK(csize, 1)
                /\ \A i \in DOMAIN FreeListAfter :
                       ~InRange(FreeListAfter[i], bp, csize)

\* C19: when mm_malloc places a request of adjusted size asize in a free block
\* of size csize >= asize, it splits the block exactly when csize - asize >= 16:
\* the allocated block then has size asize, and a free remainder of
\* csize - asize bytes at bp + asize is put on the free list; otherwise the
\* whole block is allocated with size csize and removed from the free list.
\* The allocated size is within asize .. asize + 15 and the two blocks
\* together have csize bytes.
C19_Placement ==
    [][(AtRest /\ MallocStep /\ ret' # NULL) =>
          Placed(PlacedIn(AdjustedSize(op'.arg)), AdjustedSize(op'.arg),
                 PlacedSize(AdjustedSize(op'.arg)))]_vars

\* the size passed to the mm_malloc the step runs, directly or in mm_realloc
\* (0: the step runs none)
MallocSize ==
    IF ncalls' # ncalls + 1 THEN 0
    ELSE IF op'.name = "malloc" THEN op'.arg
    ELSE IF op'.name = "realloc" THEN op'.size
    ELSE 0
\* the heap extent does not shrink
NeverShrinks == mem_brk' >= mem_brk
\* after init, mem_sbrk is called only by an mm_malloc(size > 0) whose scan
\* finds no fit, and then for max(asize, CHUNKSIZE) bytes
GrowsOnMiss ==
    (AtRest /\ (mem_brk' # mem_brk \/ asked' # 0)) =>
        /\ MallocSize # 0
        /\ FirstFit(AdjustedSize(MallocSize)) = NULL
        /\ asked' = MAX(AdjustedSize(MallocSize), 4096)
        /\ mem_brk' # mem_brk => mem_brk' - mem_brk = asked'
\* the request of a call that has grown the heap is placed in the new bytes
\* merged with the free block at the old heap end
PlacedInGrown ==
    (AtRest /\ MallocStep /\ mem_brk' # mem_brk) =>
        Placed(PlacedIn(AdjustedSize(op'.arg)), AdjustedSize(op'.arg),
               PlacedSize(AdjustedSize(op'.arg)))

\* C20: the heap extent never shrinks and, after init, changes only inside an
\* mm_malloc call with size > 0 whose first-fit scan finds no block of size
\* >= asize; such a call asks mem_sbrk for exactly max(asize, 4096) bytes, the
\* new bytes are merged with a free block at the old heap end if there is one,
\* and the request is placed in the resulting block.  mm_malloc(0), mm_free and
\* an mm_malloc that finds a fit never call mem_sbrk.
C20_Growth == [][NeverShrinks /\ GrowsOnMiss /\ PlacedInGrown]_vars

\* the two link words of the block at bp have been written and each is 0 or
\* the payload address of a block that is free
LinksToFree(bp) ==
    /\ bp \in DOMAIN mem /\ bp + WSIZE \in DOMAIN mem
    /\ PREV_FREE(H, bp) \in FreeBlocks \cup {0}
    /\ NEXT_FREE(H, bp) \in FreeBlocks \cup {0}
\* following next_free from free_listp ends at 0 and meets every free block
\* once; prev_free is the inverse of next_free
WellFormedList ==
    /\ Len(FreeList) < MaxBlocks
    /\ \A i, j \in DOMAIN FreeList : FreeList[i] = FreeList[j] => i = j
    /\ FreeListSet = FreeBlocks
    /\ free_listp # NULL => PREV_FREE(H, free_listp) = 0
    /\ \A i \in DOMAIN FreeList :
          /\ LinksToFree(FreeList[i])
          /\ NEXT_FREE(H, FreeList[i]) # 0 =>
                 PREV_FREE(H, NEXT_FREE(H, FreeList[i])) = FreeList[i]

\* C21: on return from every public operation the free list is an acyclic
\* doubly linked list: following next_free from free_listp visits each free
\* block exactly once and ends at 0, the head's prev_free is 0, prev_free(y) = x
\* whenever next_free(x) = y # 0, and every link word of a listed block is 0
\* or the payload address of a block that is free.
C21_WellFormedList == AtRest => WellFormedList

\* C22: in every heap state, reachable or not, in which two blocks adjacent in
\* heap order both have allocated bit 0, check_coalescing returns 0, and so
\* mm_check returns 0.
C22_AuditFindsFreePair ==
    (AtRest /\ ~NoAdjacentFree) =>
        /\ check_coalescing(H) = 0
        /\ op.name = "check" => ret = 0

\* the addresses of the words whose content the step changes
ChangedWords ==
    {a \in DOMAIN mem \cup DOMAIN mem' :
        a \notin DOMAIN mem \/ a \notin DOMAIN mem' \/ mem[a] # mem'[a]}
\* word a lies in the block at bp of size bytes, header and footer included
InBlock(a, bp, size) == InRange(a, HDRP(bp), size)
\* the pointer the step allocates or frees
Operand == IF op'.name = "malloc" THEN ret' ELSE op'.arg
\* the step writes into no block, other than its operand, that is allocated
\* before and after it
AllocatedUntouched ==
    \A bp \in BlockSet \ {Operand} :
        (~IsFree(bp) /\ GET_ALLOC(After, HDRP(bp)) = 1) =>
            \A a \in ChangedWords : ~InBlock(a, bp, Size(bp))
\* every word the step changes lies in a block that is free before the step,
\* in a block that is free after it, or from the old epilogue header on
WritesInFree ==
    \A a \in ChangedWords :
        \/ \E bp \in FreeBlocks : InBlock(a, bp, Size(bp))
        \/ \E i \in DOMAIN FreeListAfter :
              /\ GET_ALLOC(After, HDRP(FreeListAfter[i])) = 0
              /\ InBlock(a, FreeListAfter[i], GET_SIZE(After, HDRP(FreeListAfter[i])))
        \/ a >= mem_brk - WSIZE

\* C23: a call of mm_malloc or mm_free never writes to the header, the footer
\* or the payload of a block that is allocated before and after the call,
\* other than the block it allocates or frees; all its writes fall inside
\* blocks that are free before or after the call, or into the newly granted
\* tail of the heap and the epilogue.
C23_Frame ==
    [][(AtRest /\ ~undef' /\ (MallocStep \/ FreeStep)) =>
          (AllocatedUntouched /\ WritesInFree)]_vars

====
